---------------------------- MODULE Spec2Model ----------------------------
(***************************************************************************)
(* Model of txc-validator/txc_validator.go: the TXCertbot configuration    *)
(* validator.  main walks the resolved list of JSON files; every file is   *)
(* decoded into a list of tenant records and handed to validateTenants,    *)
(* which appends one message per violated rule to the file's error list.   *)
(*                                                                         *)
(* Strings whose characters the code inspects (sites, cert modes, regular  *)
(* expression sources) are sequences of one-character strings; all other   *)
(* strings are TLA+ strings.  Messages are built as the code builds them.  *)
(***************************************************************************)
EXTENDS Integers, Sequences, FiniteSets, TLC

(***************************************************************************)
(* Bounds of the model.                                                    *)
(***************************************************************************)
MaxFiles == 2
MaxTenants == 2
MaxGroups == 2
MaxSites == 2

(***************************************************************************)
(* Characters and character classes of Go's regexp (RE2) syntax.           *)
(***************************************************************************)
Lower == {"a","b","c","d","e","f","g","h","i","j","k","l","m",
          "n","o","p","q","r","s","t","u","v","w","x","y","z"}
Upper == {"A","B","C","D","E","F","G","H","I","J","K","L","M",
          "N","O","P","Q","R","S","T","U","V","W","X","Y","Z"}
Digits == {"0","1","2","3","4","5","6","7","8","9"}
\* \w
WordChars == Lower \cup Upper \cup Digits \cup {"_"}
\* [a-zA-Z0-9-]
LabelChars == Lower \cup Upper \cup Digits \cup {"-"}
\* \S is every character outside this set
Whitespace == {" ", "\t", "\n", "\f", "\r"}
\* characters with a meaning of their own in a pattern source
MetaChars == {"\\", ".", "+", "*", "?", "(", ")", "|", "[", "]", "{", "}", "^", "$"}

\* string(chars): the Go string holding these characters
RECURSIVE Str(_)
Str(s) == IF s = <<>> THEN "" ELSE Head(s) \o Str(Tail(s))

\* strings.Join(elems, sep)
RECURSIVE Join(_, _)
Join(elems, sep) ==
  IF elems = <<>> THEN ""
  ELSE IF Len(elems) = 1 THEN elems[1]
  ELSE elems[1] \o sep \o Join(Tail(elems), sep)

\* strings.ReplaceAll(s, ".", "\\.") on a character sequence
RECURSIVE ReplaceAllDots(_)
ReplaceAllDots(s) ==
  IF s = <<>> THEN <<>>
  ELSE IF Head(s) = "." THEN <<"\\", ".">> \o ReplaceAllDots(Tail(s))
  ELSE <<Head(s)>> \o ReplaceAllDots(Tail(s))

(***************************************************************************)
(* Compiled regular expressions.  A pattern is a sequence of items, each a *)
(* character class with a repetition ("1", "?", "*", "+"), anchored at     *)
(* both ends; opt is an optional leading group: ^(opt)?body$.              *)
(* nil is the *regexp.Regexp a failed regexp.Compile leaves behind.        *)
(***************************************************************************)
Item(cls, ch, q) == [cls |-> cls, ch |-> ch, q |-> q]
Lit(c) == Item("lit", c, "1")

Regexp(src, opt, body) == [nil |-> FALSE, src |-> src, opt |-> opt, body |-> body]
NilRegexp == [nil |-> TRUE, src |-> "", opt |-> <<>>, body |-> <<>>]

ClassHas(it, c) ==
  CASE it.cls = "lit"   -> c = it.ch
    [] it.cls = "S"     -> c \notin Whitespace
    [] it.cls = "w"     -> c \in WordChars
    [] it.cls = "label" -> c \in LabelChars

\* whether items[k..] match s[p..] up to the end of s
RECURSIVE MatchFrom(_, _, _, _)
MatchFrom(items, k, s, p) ==
  IF k > Len(items) THEN p = Len(s) + 1
  ELSE LET it == items[k]
           here == p <= Len(s) /\ ClassHas(it, s[p])
       IN CASE it.q = "1" -> here /\ MatchFrom(items, k + 1, s, p + 1)
            [] it.q = "?" -> MatchFrom(items, k + 1, s, p)
                             \/ (here /\ MatchFrom(items, k + 1, s, p + 1))
            [] it.q = "*" -> MatchFrom(items, k + 1, s, p)
                             \/ (here /\ MatchFrom(items, k, s, p + 1))
            [] it.q = "+" -> here /\ (MatchFrom(items, k + 1, s, p + 1)
                                      \/ MatchFrom(items, k, s, p + 1))

\* (*Regexp).MatchString on a compiled (non-nil) expression
MatchString(re, s) ==
  \/ MatchFrom(re.body, 1, s, 1)
  \/ re.opt # <<>> /\ MatchFrom(re.opt \o re.body, 1, s, 1)

(***************************************************************************)
(* regexp.Compile of the pattern tail appended after a prefix that ends    *)
(* in a repetition operator.  The syntax covered is what the characters of *)
(* the modelled cert modes can spell: literals, the escaped dot, and the   *)
(* repetition operators * + ? (a ? right after a repetition marks it       *)
(* non-greedy, which does not change what an anchored pattern matches).    *)
(* Stacked repetition ("**", "?+", ...) is a syntax error.                 *)
(***************************************************************************)
IsRepeatOp(c) == c \in {"*", "+", "?"}

SetLastRepeat(acc, q) ==
  [acc EXCEPT ![Len(acc)] = Item(acc[Len(acc)].cls, acc[Len(acc)].ch, q)]

RECURSIVE ParseTail(_, _, _, _)
ParseTail(src, i, lastRepeat, acc) ==
  IF i > Len(src) THEN [ok |-> TRUE, items |-> acc]
  ELSE LET c == src[i] IN
    CASE c = "\\" ->
           IF i + 1 <= Len(src) /\ src[i + 1] = "."
           THEN ParseTail(src, i + 2, FALSE, Append(acc, Lit(".")))
           ELSE [ok |-> FALSE, items |-> <<>>]
      [] IsRepeatOp(c) ->
           IF lastRepeat \/ acc = <<>>
           THEN [ok |-> FALSE, items |-> <<>>]
           ELSE LET lazy == i + 1 <= Len(src) /\ src[i + 1] = "?"
                IN ParseTail(src, IF lazy THEN i + 2 ELSE i + 1, TRUE,
                             SetLastRepeat(acc, c))
      [] c \notin MetaChars ->
           ParseTail(src, i + 1, FALSE, Append(acc, Lit(c)))
      [] OTHER -> [ok |-> FALSE, items |-> <<>>]

\* regexp.Compile("^([a-zA-Z0-9-]+\\.)?" + tail + "$")
CompileAfterOptionalLabel(tail) ==
  LET lazy == tail # <<>> /\ tail[1] = "?"
      parsed == ParseTail(tail, IF lazy THEN 2 ELSE 1, TRUE, <<>>)
  IN IF parsed.ok
     THEN Regexp("^([a-zA-Z0-9-]+\\.)?" \o Str(tail) \o "$",
                 <<Item("label", "", "+"), Lit(".")>>, parsed.items)
     ELSE NilRegexp

(***************************************************************************)
(* Enumerated value sets and the pattern library.                          *)
(***************************************************************************)
getAllowedProviders ==
  <<"letsencrypt", "buypass", "zerossl", "sslcom",
    "google", "google_test", "buypass_test", "letsencrypt_test">>

getAllowedCertTypes == <<"ec-256", "ec-384", "2048", "3072", "4096">>

getAllowedCertModes == <<"san", "classic">>

\* ^\*\.\S+\.\w+$
getCertModeRegex ==
  Regexp("^\\*\\.\\S+\\.\\w+$", <<>>,
         <<Lit("*"), Lit("."), Item("S", "", "+"), Lit("."), Item("w", "", "+")>>)

\* ^\S+\.\w+$
getSimpleSiteRegex ==
  Regexp("^\\S+\\.\\w+$", <<>>,
         <<Item("S", "", "+"), Lit("."), Item("w", "", "+")>>)

\* certMode[2:] with every "." escaped, compiled behind the optional label;
\* slicing a certMode shorter than two characters panics
getCertModeSiteRegex(certMode) ==
  IF Len(certMode) < 2
  THEN [panicked |-> TRUE, re |-> NilRegexp]
  ELSE LET fixedMode == ReplaceAllDots(SubSeq(certMode, 3, Len(certMode)))
       IN [panicked |-> FALSE, re |-> CompileAfterOptionalLabel(fixedMode)]

\* slices.Contains
Contains(seq, v) == \E i \in 1..Len(seq) : seq[i] = v

(***************************************************************************)
(* Field validators.                                                       *)
(***************************************************************************)
\* mutant: the wildcard case is forgotten
validateCertModeLiteralsOnly(certMode) ==
  CASE certMode = <<>> -> TRUE
    [] Contains(getAllowedCertModes, Str(certMode)) -> TRUE
    [] OTHER -> FALSE

validateCertMode(certMode) ==
  CASE certMode = <<>> -> TRUE
    [] Contains(getAllowedCertModes, Str(certMode)) -> TRUE
    [] MatchString(getCertModeRegex, certMode) -> TRUE
    [] OTHER -> FALSE

\* the outcome of a call that returns a bool or panics
Returned(b) == [panicked |-> FALSE, value |-> b]
Panicked == [panicked |-> TRUE, value |-> FALSE]

\* calling MatchString on the nil *Regexp is a nil dereference
validateSite(site, certMode) ==
  IF MatchString(getCertModeRegex, certMode)
  THEN LET c == getCertModeSiteRegex(certMode) IN
       IF c.panicked \/ c.re.nil THEN Panicked
       ELSE IF MatchString(c.re, site) THEN Returned(TRUE)
       ELSE Returned(FALSE)
  ELSE IF MatchString(getSimpleSiteRegex, site) THEN Returned(TRUE)
  ELSE Returned(FALSE)

validateCertProvider(certProvider) ==
  CASE certProvider = "" -> TRUE
    [] Contains(getAllowedProviders, certProvider) -> TRUE
    [] OTHER -> FALSE

\* mutant: the empty (default) value is not let through
validateCertTypeNoDefault(certType) ==
  CASE Contains(getAllowedCertTypes, certType) -> TRUE
    [] OTHER -> FALSE

validateCertType(certType) ==
  CASE certType = "" -> TRUE
    [] Contains(getAllowedCertTypes, certType) -> TRUE
    [] OTHER -> FALSE

\* the nil *EABCredentials
NoCredentials == [present |-> FALSE, Email |-> "", KID |-> "", HMACKey |-> ""]
EABCredentials(email, kid, hmac) ==
  [present |-> TRUE, Email |-> email, KID |-> kid, HMACKey |-> hmac]

\* mutant: the key id is not looked at
validateCertProviderCredentialsNoKID(creds) ==
  CASE ~creds.present -> TRUE
    [] creds.Email # "" /\ creds.HMACKey # "" -> TRUE
    [] OTHER -> FALSE

validateCertProviderCredentials(creds) ==
  CASE ~creds.present -> TRUE
    [] creds.Email # "" /\ creds.HMACKey # "" /\ creds.KID # "" -> TRUE
    [] OTHER -> FALSE

prepareSGErrorMessage(checkType, gotValue, expectedValue) ==
  "Incorrect SG field '" \o checkType \o "' value: '" \o gotValue
    \o "'. Value must be one of: " \o expectedValue


(***************************************************************************)
(* The decoded document: tenantStruct, siteGroupStruct.                    *)
(***************************************************************************)
siteGroupStruct(name, sites, mode, provider, type, creds) ==
  [GroupName |-> name, Sites |-> sites, CertMode |-> mode,
   CertProvider |-> provider, CertType |-> type,
   CertProviderCredentials |-> creds]

tenantStruct(tenant, env, sgs) ==
  [Tenant |-> tenant, Env |-> env, SiteGroups |-> sgs]

\* one resolved JSON file: its path, the error json.Unmarshal returned
\* ("" for none) and the records it decoded
jsonFile(path, parseErr, tenants) ==
  [path |-> path, parseErr |-> parseErr, tenants |-> tenants]

(***************************************************************************)
(* validateSGs, the body of the loop over site groups, in its three parts. *)
(***************************************************************************)
MsgGroupName == "SG field 'group_name' not found or empty"
MsgSitesEmpty == "Field 'sites' not found or empty"
MsgDuplicate(site) == "Duplicate found for site '" \o Str(site) \o "'"
MsgCertMode(mode) ==
  prepareSGErrorMessage("cert_mode", Str(mode),
    Join(getAllowedCertModes, ", ") \o ", or regex '" \o getCertModeRegex.src \o "'")
MsgCertProvider(provider) ==
  prepareSGErrorMessage("cert_provider", provider, Join(getAllowedProviders, ", "))
MsgCertType(type) ==
  prepareSGErrorMessage("cert_type", type, Join(getAllowedCertTypes, ", "))
MsgCredentials == "Field 'cert_provider_creds' has incorrect format"
MsgSite(site, mode) ==
  "Incorrect site field value: '" \o Str(site)
    \o "'. Value must correspond to site regex: '" \o getSimpleSiteRegex.src
    \o "' and cert_mode '" \o Str(mode) \o "'"
MsgTenant == "Field 'tenant' not found or empty"
MsgEnv == "Field 'env' not found or empty"
MsgSiteGroups == "Field 'site_groups' not found or empty"
MsgJSON(err) == "Incorrect JSON format: " \o err

\* tenantSites := make(StringSet)
newTenantSites == {}

\* the loop over siteGroupObj.Sites that marks sites and reports duplicates
RECURSIVE markSites(_, _, _, _)
markSites(sites, i, seen, acc) ==
  IF i > Len(sites) THEN [errors |-> acc, seen |-> seen]
  ELSE IF sites[i] \notin seen
       THEN markSites(sites, i + 1, seen \cup {sites[i]}, acc)
       ELSE markSites(sites, i + 1, seen, Append(acc, MsgDuplicate(sites[i])))

\* mutant: every group starts from an empty set of seen sites
nameAndSitesErrorsPerGroup(sg, seen) ==
  LET nameErr == IF sg.GroupName = "" THEN <<MsgGroupName>> ELSE <<>>
  IN IF Len(sg.Sites) = 0
     THEN [errors |-> nameErr \o <<MsgSitesEmpty>>, seen |-> seen]
     ELSE LET m == markSites(sg.Sites, 1, {}, <<>>)
          IN [errors |-> nameErr \o m.errors, seen |-> m.seen]

\* group_name, then sites: empty, or duplicates against the tenant's sites
nameAndSitesErrors(sg, seen) ==
  LET nameErr == IF sg.GroupName = "" THEN <<MsgGroupName>> ELSE <<>>
  IN IF Len(sg.Sites) = 0
     THEN [errors |-> nameErr \o <<MsgSitesEmpty>>, seen |-> seen]
     ELSE LET m == markSites(sg.Sites, 1, seen, <<>>)
          IN [errors |-> nameErr \o m.errors, seen |-> m.seen]

\* mutant: cert_type is checked before cert_provider
certFieldErrorsTypeFirst(sg) ==
  (IF ~validateCertMode(sg.CertMode) THEN <<MsgCertMode(sg.CertMode)>> ELSE <<>>)
  \o (IF ~validateCertType(sg.CertType) THEN <<MsgCertType(sg.CertType)>> ELSE <<>>)
  \o (IF ~validateCertProvider(sg.CertProvider)
      THEN <<MsgCertProvider(sg.CertProvider)>> ELSE <<>>)
  \o (IF ~validateCertProviderCredentials(sg.CertProviderCredentials)
      THEN <<MsgCredentials>> ELSE <<>>)

\* mutant: a group without sites skips its cert field checks
certFieldErrorsSkipNoSites(sg) ==
  IF Len(sg.Sites) = 0 THEN <<>>
  ELSE (IF ~validateCertMode(sg.CertMode) THEN <<MsgCertMode(sg.CertMode)>> ELSE <<>>)
       \o (IF ~validateCertProvider(sg.CertProvider)
           THEN <<MsgCertProvider(sg.CertProvider)>> ELSE <<>>)
       \o (IF ~validateCertType(sg.CertType) THEN <<MsgCertType(sg.CertType)>> ELSE <<>>)
       \o (IF ~validateCertProviderCredentials(sg.CertProviderCredentials)
           THEN <<MsgCredentials>> ELSE <<>>)

\* cert_mode, cert_provider, cert_type, cert_provider_creds
certFieldErrors(sg) ==
  (IF ~validateCertMode(sg.CertMode) THEN <<MsgCertMode(sg.CertMode)>> ELSE <<>>)
  \o (IF ~validateCertProvider(sg.CertProvider)
      THEN <<MsgCertProvider(sg.CertProvider)>> ELSE <<>>)
  \o (IF ~validateCertType(sg.CertType) THEN <<MsgCertType(sg.CertType)>> ELSE <<>>)
  \o (IF ~validateCertProviderCredentials(sg.CertProviderCredentials)
      THEN <<MsgCredentials>> ELSE <<>>)

\* mutant: the loop over the sites stops at the first rejected site
RECURSIVE siteModeErrorsFirstOnly(_, _, _, _)
siteModeErrorsFirstOnly(sites, mode, i, acc) ==
  IF i > Len(sites) THEN [panicked |-> FALSE, errors |-> acc]
  ELSE LET r == validateSite(sites[i], mode) IN
       IF r.panicked THEN [panicked |-> TRUE, errors |-> acc]
       ELSE IF ~r.value
            THEN [panicked |-> FALSE, errors |-> Append(acc, MsgSite(sites[i], mode))]
            ELSE siteModeErrorsFirstOnly(sites, mode, i + 1, acc)

\* the loop over siteGroupObj.Sites that checks every site against the mode;
\* a panic ends it with what had been appended so far
RECURSIVE siteModeErrors(_, _, _, _)
siteModeErrors(sites, mode, i, acc) ==
  IF i > Len(sites) THEN [panicked |-> FALSE, errors |-> acc]
  ELSE LET r == validateSite(sites[i], mode) IN
       IF r.panicked THEN [panicked |-> TRUE, errors |-> acc]
       ELSE IF ~r.value
            THEN siteModeErrors(sites, mode, i + 1, Append(acc, MsgSite(sites[i], mode)))
            ELSE siteModeErrors(sites, mode, i + 1, acc)

\* validateTenants: the checks on the tenant record itself
tenantFieldErrors(t) ==
  (IF t.Tenant = "" THEN <<MsgTenant>> ELSE <<>>)
  \o (IF t.Env = "" THEN <<MsgEnv>> ELSE <<>>)
  \o (IF Len(t.SiteGroups) = 0 THEN <<MsgSiteGroups>> ELSE <<>>)

\* main: the entry a failed document adds to errors
errorMsgPart(path, issues) ==
  "Config file '" \o path \o "' validation failed.\nIssues:\n" \o "- "
    \o Join(issues, "\n- ")
MsgSucceeded(path) == "Config file " \o path \o " validation succeeded."

\* exit statuses: os.Exit(0), os.Exit(1), and the Go runtime's status for an
\* unrecovered panic
ExitOK == 0
ExitFailure == 1
ExitPanic == 2


(***************************************************************************)
(* Input values.  Sites and cert modes are spelled out as characters.      *)
(***************************************************************************)
Dot == <<".">>
Com == <<"c", "o", "m">>
Example == <<"e", "x", "a", "m", "p", "l", "e">>
Corp == <<"c", "o", "r", "p">>
Wrong == <<"w", "r", "o", "n", "g">>
ExampleCom == Example \o Dot \o Com
CorpExampleCom == Corp \o Dot \o ExampleCom

SiteA == <<"a">> \o Dot \o ExampleCom                      \* a.example.com
SiteB == <<"b">> \o Dot \o ExampleCom                      \* b.example.com
SiteEuCorp == <<"e", "u">> \o Dot \o CorpExampleCom        \* eu.corp.example.com
SiteEuWrong == <<"e", "u">> \o Dot \o Wrong \o Dot \o Com  \* eu.wrong.com
SiteDeep == <<"x">> \o Dot \o SiteEuCorp                   \* x.eu.corp.example.com
SiteUnderscore == <<"x", "_", "y">> \o Dot \o ExampleCom   \* x_y.example.com
SiteLocalhost == <<"l", "o", "c", "a", "l", "h", "o", "s", "t">>
SiteSpace == <<"m", "y", " ", "s", "i", "t", "e">> \o Dot \o Com   \* "my site.com"
SitePlus == <<"a", "+", "b">> \o Dot \o Com                \* a+b.com
SiteAAB == <<"a", "a", "b">> \o Dot \o Com                 \* aab.com

Sites == {SiteA, CorpExampleCom, SiteEuCorp, SiteEuWrong, SiteDeep,
          SiteUnderscore, SiteLocalhost, SiteSpace, SitePlus, SiteAAB}

Star == <<"*">>
ModeDefault == <<>>
ModeSan == <<"s", "a", "n">>
ModeClassic == <<"c", "l", "a", "s", "s", "i", "c">>
ModeUnknown == <<"w", "i", "l", "d", "c", "a", "r", "d">>
ModeNoSuffix == Star \o Dot \o Com                         \* *.com
ModeExample == Star \o Dot \o ExampleCom                   \* *.example.com
ModeCorp == Star \o Dot \o CorpExampleCom                  \* *.corp.example.com
ModePlus == Star \o Dot \o SitePlus                        \* *.a+b.com
ModeDoubleStar == Star \o Dot \o ModeExample               \* *.*.example.com

CertModes == {ModeDefault, ModeSan, ModeClassic, ModeUnknown, ModeNoSuffix,
              ModeExample, ModeCorp, ModePlus, ModeDoubleStar}

TenantNames == {"", "t1"}
Envs == {"", "prod"}
GroupNames == {"", "g1"}
CertProviders == {"", "letsencrypt", "google_test", "unknownca"}
CertTypes == {"", "ec-256", "4096", "1024"}
Credentials ==
  {NoCredentials}
    \cup {EABCredentials(e, k, h) : e \in {"", "ops@example.com"},
                                    k \in {"", "kid-1"}, h \in {"", "hmac-1"}}
ParseErrors == {"", "unexpected end of JSON input"}

\* sequences over S of length lo..hi
SeqsOf(S, lo, hi) == UNION {[1..n -> S] : n \in lo..hi}

\* the example record of the specification
ExampleGroup ==
  siteGroupStruct("g1", <<SiteA>>, ModeDefault, "letsencrypt", "ec-256", NoCredentials)
ExampleTenant == tenantStruct("t1", "prod", <<ExampleGroup>>)

(***************************************************************************)
(* The documents the model validates: every combination of the simple      *)
(* fields in one group, every cert mode against every list of sites,       *)
(* the arrangements of two sites over a tenant's groups, and lists of      *)
(* groups, tenants and files drawn from representative records.            *)
(***************************************************************************)
FieldDocs ==
  {<<tenantStruct(t, e, <<siteGroupStruct(g, ss, m, p, ty, c)>>)>> :
     t \in TenantNames, e \in Envs, g \in GroupNames,
     ss \in {<<>>, <<SiteA>>}, m \in {ModeDefault, ModeUnknown},
     p \in CertProviders, ty \in CertTypes, c \in Credentials}

SiteDocs ==
  {<<tenantStruct("t1", "prod",
       <<siteGroupStruct("g1", ss, m, "letsencrypt", "ec-256", NoCredentials)>>)>> :
     ss \in SeqsOf(Sites, 0, MaxSites), m \in CertModes}

DuplicateDocs ==
  {<<tenantStruct("t1", "prod", gs)>> :
     gs \in SeqsOf({siteGroupStruct("g1", ss, ModeDefault, "", "", NoCredentials) :
                      ss \in SeqsOf({SiteA, SiteB}, 1, 2)}, 0, MaxGroups)}

BadGroup ==
  siteGroupStruct("", <<SiteLocalhost>>, ModeUnknown, "unknownca", "1024",
                  EABCredentials("ops@example.com", "", ""))
RepGroups ==
  {ExampleGroup, BadGroup,
   siteGroupStruct("g2", <<>>, ModeSan, "unknownca", "", EABCredentials("", "kid-1", "hmac-1")),
   siteGroupStruct("g3", <<SiteEuCorp, SiteEuWrong>>, ModeCorp, "", "1024", NoCredentials),
   siteGroupStruct("g4", <<SiteA, SiteA>>, ModeClassic, "zerossl", "2048",
                   EABCredentials("ops@example.com", "kid-1", "hmac-1")),
   siteGroupStruct("g5", <<SiteAAB>>, ModePlus, "", "", NoCredentials),
   siteGroupStruct("g6", <<SiteB>>, ModeDoubleStar, "", "", EABCredentials("", "", ""))}

GroupDocs == {<<tenantStruct("t1", "prod", gs)>> : gs \in SeqsOf(RepGroups, 0, MaxGroups)}

RepTenants ==
  {ExampleTenant,
   tenantStruct("", "", <<>>),
   tenantStruct("t2", "", <<>>),
   tenantStruct("t3", "dev", <<BadGroup>>),
   tenantStruct("", "prod", <<ExampleGroup, ExampleGroup>>),
   tenantStruct("t4", "prod", <<BadGroup, ExampleGroup>>),
   tenantStruct("t5", "prod",
     <<siteGroupStruct("g6", <<SiteB>>, ModeDoubleStar, "", "", NoCredentials)>>),
   tenantStruct("t6", "prod",
     <<siteGroupStruct("g2", <<>>, ModeSan, "unknownca", "",
                       EABCredentials("", "kid-1", "hmac-1"))>>)}

TenantDocs == SeqsOf(RepTenants, 0, MaxTenants)

Documents == FieldDocs \cup SiteDocs \cup DuplicateDocs \cup GroupDocs \cup TenantDocs

RepDocuments ==
  {<<>>, <<ExampleTenant>>, <<tenantStruct("", "prod", <<BadGroup>>)>>,
   <<tenantStruct("t5", "prod",
       <<siteGroupStruct("g6", <<SiteB>>, ModeDoubleStar, "", "", NoCredentials)>>)>>}

Path(i) == "tenants" \o ToString(i) \o ".json"

\* the resolved file lists: one file holding any document, or several files
\* holding representative documents
FileLists ==
  {<<jsonFile(Path(1), "", d)>> : d \in Documents}
    \cup {[i \in 1..Len(f) |-> jsonFile(Path(i), f[i][1], f[i][2])] :
            f \in SeqsOf(ParseErrors \X RepDocuments, 0, MaxFiles)}


(***************************************************************************)
(* The state of a run of main.                                             *)
(***************************************************************************)
VARIABLES
  jsonFilePaths,  \* the resolved files, with what reading and decoding each gives
  fileIdx,        \* main's position in jsonFilePaths
  errors,         \* main's errors: one entry per failed document
  runErrors,      \* the current document's error list
  tenantIdx,      \* validateTenants' position in tenants
  sgIdx,          \* validateSGs' position in sgs
  tenantSites,    \* validateSGs' set of the sites seen for the tenant
  stdout,         \* the lines printed
  exitCode,       \* the exit status, -1 while running
  pc              \* where the run is

vars == <<jsonFilePaths, fileIdx, errors, runErrors, tenantIdx, sgIdx,
          tenantSites, stdout, exitCode, pc>>

tenants == jsonFilePaths[fileIdx].tenants
tenantStructObj == tenants[tenantIdx]
siteGroupObj == tenantStructObj.SiteGroups[sgIdx]

Init ==
  /\ jsonFilePaths \in FileLists
  /\ fileIdx = 1
  /\ errors = <<>>
  /\ runErrors = <<>>
  /\ tenantIdx = 1
  /\ sgIdx = 1
  /\ tenantSites = {}
  /\ stdout = <<>>
  /\ exitCode = -1
  /\ pc = "main"

\* main: len(jsonFilePaths) == 0
NoFilesFound ==
  /\ pc = "main"
  /\ Len(jsonFilePaths) = 0
  /\ stdout' = Append(stdout, "No JSON files found.")
  /\ exitCode' = ExitFailure
  /\ pc' = "exited"
  /\ UNCHANGED <<jsonFilePaths, fileIdx, errors, runErrors, tenantIdx, sgIdx, tenantSites>>

\* main: var errors []string, and into the loop over the files
FilesFound ==
  /\ pc = "main"
  /\ Len(jsonFilePaths) > 0
  /\ errors' = <<>>
  /\ fileIdx' = 1
  /\ pc' = "files"
  /\ UNCHANGED <<jsonFilePaths, runErrors, tenantIdx, sgIdx, tenantSites, stdout, exitCode>>

\* main: open, read and decode the next file; call validateTenants
OpenAndDecode ==
  /\ pc = "files"
  /\ fileIdx <= Len(jsonFilePaths)
  /\ runErrors' = IF jsonFilePaths[fileIdx].parseErr # ""
                  THEN <<MsgJSON(jsonFilePaths[fileIdx].parseErr)>>
                  ELSE <<>>
  /\ tenantIdx' = 1
  /\ pc' = "tenants"
  /\ UNCHANGED <<jsonFilePaths, fileIdx, errors, sgIdx, tenantSites, stdout, exitCode>>

\* validateTenants: one tenant record; an empty site_groups list continues
\* with the next record, any other enters validateSGs
ValidateTenant ==
  /\ pc = "tenants"
  /\ tenantIdx <= Len(tenants)
  /\ runErrors' = runErrors \o tenantFieldErrors(tenantStructObj)
  /\ IF Len(tenantStructObj.SiteGroups) = 0
     THEN /\ tenantIdx' = tenantIdx + 1
          /\ UNCHANGED <<sgIdx, tenantSites, pc>>
     ELSE /\ tenantSites' = newTenantSites
          /\ sgIdx' = 1
          /\ pc' = "sg_sites"
          /\ UNCHANGED tenantIdx
  /\ UNCHANGED <<jsonFilePaths, fileIdx, errors, stdout, exitCode>>

\* validateTenants returns to main
ReturnFromValidateTenants ==
  /\ pc = "tenants"
  /\ tenantIdx > Len(tenants)
  /\ pc' = "report"
  /\ UNCHANGED <<jsonFilePaths, fileIdx, errors, runErrors, tenantIdx, sgIdx,
                 tenantSites, stdout, exitCode>>

\* validateSGs: group_name and sites of the current group
SGNameAndSites ==
  /\ pc = "sg_sites"
  /\ LET r == nameAndSitesErrors(siteGroupObj, tenantSites)
     IN /\ runErrors' = runErrors \o r.errors
        /\ tenantSites' = r.seen
  /\ pc' = "sg_fields"
  /\ UNCHANGED <<jsonFilePaths, fileIdx, errors, tenantIdx, sgIdx, stdout, exitCode>>

\* validateSGs: cert_mode, cert_provider, cert_type, cert_provider_creds
SGCertFields ==
  /\ pc = "sg_fields"
  /\ runErrors' = runErrors \o certFieldErrors(siteGroupObj)
  /\ pc' = "sg_site_modes"
  /\ UNCHANGED <<jsonFilePaths, fileIdx, errors, tenantIdx, sgIdx, tenantSites,
                 stdout, exitCode>>

\* validateSGs: every site against the cert mode, then the next group, or
\* back to validateTenants after the last; a panic ends the process
SGSiteModes ==
  /\ pc = "sg_site_modes"
  /\ LET r == siteModeErrors(siteGroupObj.Sites, siteGroupObj.CertMode, 1, <<>>)
     IN /\ runErrors' = runErrors \o r.errors
        /\ IF r.panicked
           THEN /\ pc' = "panicked"
                /\ exitCode' = ExitPanic
                /\ UNCHANGED <<tenantIdx, sgIdx>>
           ELSE /\ UNCHANGED exitCode
                /\ IF sgIdx < Len(tenantStructObj.SiteGroups)
                   THEN /\ sgIdx' = sgIdx + 1
                        /\ pc' = "sg_sites"
                        /\ UNCHANGED tenantIdx
                   ELSE /\ tenantIdx' = tenantIdx + 1
                        /\ pc' = "tenants"
                        /\ UNCHANGED sgIdx
  /\ UNCHANGED <<jsonFilePaths, fileIdx, errors, tenantSites, stdout>>

\* main: record the document's failure or print its success; next file
Report ==
  /\ pc = "report"
  /\ IF Len(runErrors) > 0
     THEN /\ errors' = Append(errors, errorMsgPart(jsonFilePaths[fileIdx].path, runErrors))
          /\ UNCHANGED stdout
     ELSE /\ stdout' = Append(stdout, MsgSucceeded(jsonFilePaths[fileIdx].path))
          /\ UNCHANGED errors
  /\ fileIdx' = fileIdx + 1
  /\ pc' = "files"
  /\ UNCHANGED <<jsonFilePaths, runErrors, tenantIdx, sgIdx, tenantSites, exitCode>>

\* main: after the last file, print the failures and exit
Exit ==
  /\ pc = "files"
  /\ fileIdx > Len(jsonFilePaths)
  /\ stdout' = stdout \o errors
  /\ exitCode' = IF Len(errors) > 0 THEN ExitFailure ELSE ExitOK
  /\ pc' = "exited"
  /\ UNCHANGED <<jsonFilePaths, fileIdx, errors, runErrors, tenantIdx, sgIdx, tenantSites>>

Next ==
  \/ NoFilesFound
  \/ FilesFound
  \/ OpenAndDecode
  \/ ValidateTenant
  \/ ReturnFromValidateTenants
  \/ SGNameAndSites
  \/ SGCertFields
  \/ SGSiteModes
  \/ Report
  \/ Exit

Spec == Init /\ [][Next]_vars


(***************************************************************************)
(* Vocabulary of the properties.  The rules are restated here on their     *)
(* own, over the whole document, without the validators' code.             *)
(***************************************************************************)
file == jsonFilePaths[fileIdx]
\* what the error list holds when validateTenants is called
ParsePrefix == IF file.parseErr # "" THEN <<MsgJSON(file.parseErr)>> ELSE <<>>
\* validateTenants has returned the current document's error list
ValidationReturned == pc = "report"

Count(seq, m) == Cardinality({i \in 1..Len(seq) : seq[i] = m})
IsPrefix(a, b) == Len(a) <= Len(b) /\ SubSeq(b, 1, Len(a)) = a

\* positions <<tenant, group>> and <<tenant, group, site>> of a document
GroupsOf(doc) ==
  UNION {{<<t, g>> : g \in 1..Len(doc[t].SiteGroups)} : t \in 1..Len(doc)}
GroupAt(doc, p) == doc[p[1]].SiteGroups[p[2]]
SitesOf(doc) ==
  UNION {{<<p[1], p[2], i>> : i \in 1..Len(GroupAt(doc, p).Sites)} : p \in GroupsOf(doc)}
SiteAt(doc, p) == GroupAt(doc, p).Sites[p[3]]

\* the site at p was already listed earlier under the same tenant
IsRepeated(doc, p) ==
  \E g \in 1..p[2] :
    \E i \in 1..Len(doc[p[1]].SiteGroups[g].Sites) :
      /\ g < p[2] \/ i < p[3]
      /\ doc[p[1]].SiteGroups[g].Sites[i] = SiteAt(doc, p)

AllowedProviderSet ==
  {"letsencrypt", "buypass", "zerossl", "sslcom",
   "google", "google_test", "buypass_test", "letsencrypt_test"}
AllowedCertTypeSet == {"ec-256", "ec-384", "2048", "3072", "4096"}

\* "*." followed by non-whitespace, a dot, and a top-level token of word characters
IsWildcardShape(m) ==
  /\ Len(m) >= 5
  /\ m[1] = "*"
  /\ m[2] = "."
  /\ \E d \in 4..(Len(m) - 1) :
       /\ m[d] = "."
       /\ \A i \in 3..(d - 1) : m[i] \notin Whitespace
       /\ \A i \in (d + 1)..Len(m) : m[i] \in WordChars

\* non-whitespace, a dot, and a top-level token of word characters
IsSimpleSite(s) ==
  \E d \in 2..(Len(s) - 1) :
    /\ s[d] = "."
    /\ \A i \in 1..(d - 1) : s[i] \notin Whitespace
    /\ \A i \in (d + 1)..Len(s) : s[i] \in WordChars

ModeOK(m) == m = <<>> \/ Str(m) \in {"san", "classic"} \/ IsWildcardShape(m)
ProviderOK(p) == p = "" \/ p \in AllowedProviderSet
TypeOK(ty) == ty = "" \/ ty \in AllowedCertTypeSet

NonEmptyCount(c) ==
  (IF c.Email # "" THEN 1 ELSE 0) + (IF c.KID # "" THEN 1 ELSE 0)
    + (IF c.HMACKey # "" THEN 1 ELSE 0)
PartialBundle(c) == c.present /\ NonEmptyCount(c) \in {1, 2}
CompleteBundle(c) == c.present /\ NonEmptyCount(c) = 3
AbsentBundle(c) == ~c.present

\* the site is the mode's suffix, or one label and a dot before the suffix
IsSuffixOrOneLabel(s, m) ==
  LET suffix == SubSeq(m, 3, Len(m))
      n == Len(s) - Len(suffix)
  IN \/ s = suffix
     \/ /\ n >= 2
        /\ SubSeq(s, n + 1, Len(s)) = suffix
        /\ s[n] = "."
        /\ \A i \in 1..(n - 1) : s[i] \in LabelChars

\* site-vs-mode as the specification words it
SiteOK(s, m) == IF IsWildcardShape(m) THEN IsSuffixOrOneLabel(s, m) ELSE IsSimpleSite(s)

\* the site check returns false (it neither passes nor panics)
SiteRejected(s, m) == LET r == validateSite(s, m) IN ~r.panicked /\ ~r.value
SitePasses(s, m) == LET r == validateSite(s, m) IN ~r.panicked /\ r.value

\* the number of violated rules of a document, rule by rule
ViolatedRules(doc) ==
  Cardinality({t \in 1..Len(doc) : doc[t].Tenant = ""})
  + Cardinality({t \in 1..Len(doc) : doc[t].Env = ""})
  + Cardinality({t \in 1..Len(doc) : Len(doc[t].SiteGroups) = 0})
  + Cardinality({p \in GroupsOf(doc) : GroupAt(doc, p).GroupName = ""})
  + Cardinality({p \in GroupsOf(doc) : Len(GroupAt(doc, p).Sites) = 0})
  + Cardinality({p \in SitesOf(doc) : IsRepeated(doc, p)})
  + Cardinality({p \in GroupsOf(doc) : ~validateCertMode(GroupAt(doc, p).CertMode)})
  + Cardinality({p \in GroupsOf(doc) : ~validateCertProvider(GroupAt(doc, p).CertProvider)})
  + Cardinality({p \in GroupsOf(doc) : ~validateCertType(GroupAt(doc, p).CertType)})
  + Cardinality({p \in GroupsOf(doc) :
                   ~validateCertProviderCredentials(GroupAt(doc, p).CertProviderCredentials)})
  + Cardinality({p \in SitesOf(doc) :
                   SiteRejected(SiteAt(doc, p), GroupAt(doc, p).CertMode)})

(***************************************************************************)
(* C1.  Full accumulation: when validateTenants returns, the list has      *)
(* grown by exactly one entry per violated rule, summed over every tenant  *)
(* and every site group of the document; no failed check, in the same      *)
(* group, an earlier group or an earlier tenant, suppresses a later one.   *)
(***************************************************************************)
FullAccumulation ==
  ValidationReturned =>
    Len(runErrors) = Len(ParsePrefix) + ViolatedRules(tenants)

\* two tenants, each with a group that fails six rules, all twelve reported
FullAccumulationWitness ==
  /\ ValidationReturned
  /\ Len(tenants) = 2
  /\ Len(tenants[1].SiteGroups) = 2
  /\ tenants[1].SiteGroups[1] = BadGroup
  /\ tenants[2].SiteGroups = <<BadGroup>>
  /\ Len(runErrors) = 12


(***************************************************************************)
(* C2.  The claim as stated: a document whose tenant records each have a   *)
(* non-empty tenant, a non-empty env and at least one well-formed site     *)
(* group gets an empty error sequence from validateTenants.                *)
(***************************************************************************)
WellFormedGroup(sg) ==
  /\ sg.GroupName # ""
  /\ Len(sg.Sites) > 0
  /\ ModeOK(sg.CertMode)
  /\ ProviderOK(sg.CertProvider)
  /\ TypeOK(sg.CertType)
  /\ AbsentBundle(sg.CertProviderCredentials) \/ CompleteBundle(sg.CertProviderCredentials)
  /\ \A i \in 1..Len(sg.Sites) : SitePasses(sg.Sites[i], sg.CertMode)
  /\ \A i, j \in 1..Len(sg.Sites) : sg.Sites[i] = sg.Sites[j] => i = j

AllGroupsWellFormed(doc) ==
  /\ \A t \in 1..Len(doc) :
       /\ doc[t].Tenant # ""
       /\ doc[t].Env # ""
       /\ Len(doc[t].SiteGroups) > 0
  /\ \A p \in GroupsOf(doc) : WellFormedGroup(GroupAt(doc, p))
  /\ \A p \in SitesOf(doc) : ~IsRepeated(doc, p)

SitesIn(doc) == {SiteAt(doc, p) : p \in SitesOf(doc)}

DuplicatesPerTenant ==
  ValidationReturned =>
    \A s \in SitesIn(tenants) :
      Count(runErrors, MsgDuplicate(s)) =
        Cardinality({p \in SitesOf(tenants) :
                       SiteAt(tenants, p) = s /\ IsRepeated(tenants, p)})

\* two groups of one tenant list the same site, a second tenant lists it
\* too: one duplicate entry
DuplicatesPerTenantWitness ==
  /\ ValidationReturned
  /\ Len(tenants) = 2
  /\ Len(tenants[1].SiteGroups) = 2
  /\ tenants[1].SiteGroups[1].Sites = <<SiteA>>
  /\ tenants[1].SiteGroups[2].Sites = <<SiteA>>
  /\ Len(tenants[2].SiteGroups) = 1
  /\ tenants[2].SiteGroups[1].Sites = <<SiteA>>
  /\ Count(runErrors, MsgDuplicate(SiteA)) = 1

(***************************************************************************)
(* C4.  When validateTenants returns, every group whose credential bundle  *)
(* has exactly one or two of email, kid, hmac_key non-empty has its one    *)
(* credential-format entry, and no group whose bundle is absent or has all *)
(* three non-empty has any: the number of entries lies between the number  *)
(* of partial bundles and the number of bundles neither absent nor         *)
(* complete.                                                               *)
(***************************************************************************)
CredentialErrors ==
  ValidationReturned =>
    LET n == Count(runErrors, MsgCredentials)
        bundle(p) == GroupAt(tenants, p).CertProviderCredentials
    IN /\ n >= Cardinality({p \in GroupsOf(tenants) : PartialBundle(bundle(p))})
       /\ n <= Cardinality({p \in GroupsOf(tenants) :
                              ~AbsentBundle(bundle(p)) /\ ~CompleteBundle(bundle(p))})

\* a bundle with only kid and hmac_key has its entry, next to a group
\* without a bundle
CredentialErrorsWitness ==
  /\ ValidationReturned
  /\ Len(tenants) = 1
  /\ Len(tenants[1].SiteGroups) = 2
  /\ ~tenants[1].SiteGroups[1].CertProviderCredentials.present
  /\ tenants[1].SiteGroups[2].CertProviderCredentials = EABCredentials("", "kid-1", "hmac-1")
  /\ Count(runErrors, MsgCredentials) = 1

(***************************************************************************)
(* C5.  The claim as stated: when validateTenants returns, a site has a    *)
(* site entry for each of its occurrences in a group exactly if, the       *)
(* group's cert mode being of the wildcard shape "*.<suffix>", the site is *)
(* neither <suffix> nor one label and a dot before <suffix>, or, the cert  *)
(* mode being of any other shape, the site does not match the simple-site  *)
(* pattern.                                                                *)
(***************************************************************************)
SiteErrorsFollowSuffix ==
  ValidationReturned =>
    \A p \in SitesOf(tenants) :
      LET s == SiteAt(tenants, p)
          m == GroupAt(tenants, p).CertMode
      IN Count(runErrors, MsgSite(s, m)) =
           IF SiteOK(s, m) THEN 0
           ELSE Cardinality({q \in SitesOf(tenants) :
                               SiteAt(tenants, q) = s /\ GroupAt(tenants, q).CertMode = m})

(***************************************************************************)
(* C6.  The claim as stated: no input is fatal; validation never ends in a *)
(* panic.                                                                  *)
(***************************************************************************)
NoPanic == pc # "panicked"

(***************************************************************************)
(* C7.  The claim as stated: once the process has ended on a non-empty     *)
(* list of files, every file has been processed, and the exit status is    *)
(* non-zero exactly if some document produced an error (it failed to       *)
(* parse, or it violates a rule).                                          *)
(***************************************************************************)
ProducesErrors(f) == f.parseErr # "" \/ ViolatedRules(f.tenants) > 0

ExitStatusReflectsErrors ==
  (pc \in {"exited", "panicked"} /\ Len(jsonFilePaths) > 0) =>
    /\ fileIdx = Len(jsonFilePaths) + 1
    /\ exitCode # 0 <=> \E i \in 1..Len(jsonFilePaths) : ProducesErrors(jsonFilePaths[i])


(***************************************************************************)
(* C8.  Enumerated-value checks: when validateTenants returns, the list    *)
(* holds, for every cert_provider value of the document, one provider      *)
(* entry per group carrying it if the value is non-empty and not one of    *)
(* the 8 allowed providers, and none otherwise; likewise for cert_type and *)
(* the 5 allowed key types, and for cert_mode, which is in error exactly   *)
(* if it is non-empty, neither "san" nor "classic", and not of the         *)
(* wildcard-domain shape.  The example tenant with cert_provider           *)
(* "unknownca" gets exactly one error, which lists the 8 providers.        *)
(***************************************************************************)
UnknownCAExample ==
  <<tenantStruct("t1", "prod",
      <<siteGroupStruct("g1", <<SiteA>>, ModeDefault, "unknownca", "ec-256",
                        NoCredentials)>>)>>

UnknownCAMessage ==
  "Incorrect SG field 'cert_provider' value: 'unknownca'. Value must be one of: letsencrypt, buypass, zerossl, sslcom, google, google_test, buypass_test, letsencrypt_test"

EnumeratedValueErrors ==
  ValidationReturned =>
    /\ \A p \in GroupsOf(tenants) :
         LET v == GroupAt(tenants, p).CertProvider IN
         Count(runErrors, MsgCertProvider(v)) =
           IF ProviderOK(v) THEN 0
           ELSE Cardinality({q \in GroupsOf(tenants) : GroupAt(tenants, q).CertProvider = v})
    /\ \A p \in GroupsOf(tenants) :
         LET v == GroupAt(tenants, p).CertType IN
         Count(runErrors, MsgCertType(v)) =
           IF TypeOK(v) THEN 0
           ELSE Cardinality({q \in GroupsOf(tenants) : GroupAt(tenants, q).CertType = v})
    /\ \A p \in GroupsOf(tenants) :
         LET v == GroupAt(tenants, p).CertMode IN
         Count(runErrors, MsgCertMode(v)) =
           IF ModeOK(v) THEN 0
           ELSE Cardinality({q \in GroupsOf(tenants) : GroupAt(tenants, q).CertMode = v})
    /\ (tenants = UnknownCAExample /\ file.parseErr = "") => runErrors = <<UnknownCAMessage>>

\* the example tenant with cert_provider "unknownca" has been validated
EnumeratedValueErrorsWitness ==
  /\ ValidationReturned
  /\ tenants = UnknownCAExample
  /\ runErrors = <<UnknownCAMessage>>

(***************************************************************************)
(* C9.  The error list is ordered and append-only.  While a document is    *)
(* validated the list only grows at its end; it begins with what it held   *)
(* when validation started and is at every moment a prefix of the          *)
(* document's errors laid out tenant by tenant, within a tenant group by   *)
(* group, and within a group as group_name, sites-empty or duplicates in   *)
(* site order, cert_mode, cert_provider, cert_type, cert_provider_creds,   *)
(* site errors in site order; when validateTenants returns it is that      *)
(* whole layout, repeated texts included.                                  *)
(***************************************************************************)
\* the messages Msg(i), in order, of the i in 1..n with Test(i)
Select(n, Test(_), Msg(_)) ==
  LET sel == SelectSeq([i \in 1..n |-> i], Test)
  IN [k \in 1..Len(sel) |-> Msg(sel[k])]

ExpectedGroupErrors(doc, t, g) ==
  LET sg == doc[t].SiteGroups[g]
      n == Len(sg.Sites)
      Repeated(i) == IsRepeated(doc, <<t, g, i>>)
      Duplicate(i) == MsgDuplicate(sg.Sites[i])
      Rejected(i) == SiteRejected(sg.Sites[i], sg.CertMode)
      SiteError(i) == MsgSite(sg.Sites[i], sg.CertMode)
      bundle == sg.CertProviderCredentials
  IN (IF sg.GroupName = "" THEN <<MsgGroupName>> ELSE <<>>)
     \o (IF n = 0 THEN <<MsgSitesEmpty>> ELSE Select(n, Repeated, Duplicate))
     \o (IF ModeOK(sg.CertMode) THEN <<>> ELSE <<MsgCertMode(sg.CertMode)>>)
     \o (IF ProviderOK(sg.CertProvider) THEN <<>> ELSE <<MsgCertProvider(sg.CertProvider)>>)
     \o (IF TypeOK(sg.CertType) THEN <<>> ELSE <<MsgCertType(sg.CertType)>>)
     \o (IF AbsentBundle(bundle) \/ CompleteBundle(bundle) THEN <<>> ELSE <<MsgCredentials>>)
     \o Select(n, Rejected, SiteError)

RECURSIVE ExpectedGroupsFrom(_, _, _)
ExpectedGroupsFrom(doc, t, g) ==
  IF g > Len(doc[t].SiteGroups) THEN <<>>
  ELSE ExpectedGroupErrors(doc, t, g) \o ExpectedGroupsFrom(doc, t, g + 1)

ExpectedTenantErrors(doc, t) ==
  (IF doc[t].Tenant = "" THEN <<MsgTenant>> ELSE <<>>)
  \o (IF doc[t].Env = "" THEN <<MsgEnv>> ELSE <<>>)
  \o (IF Len(doc[t].SiteGroups) = 0 THEN <<MsgSiteGroups>>
      ELSE ExpectedGroupsFrom(doc, t, 1))

RECURSIVE ExpectedErrorsFrom(_, _)
ExpectedErrorsFrom(doc, t) ==
  IF t > Len(doc) THEN <<>>
  ELSE ExpectedTenantErrors(doc, t) \o ExpectedErrorsFrom(doc, t + 1)

Validating == pc \in {"tenants", "sg_sites", "sg_fields", "sg_site_modes", "report", "panicked"}

\* the list begins with what it held when validation started; once
\* validation has ended, by a return or a panic, it is a prefix of the
\* layout, and the whole layout after a return
ErrorsInOrder ==
  /\ Validating => IsPrefix(ParsePrefix, runErrors)
  /\ pc \in {"report", "panicked"} =>
       LET layout == ParsePrefix \o ExpectedErrorsFrom(tenants, 1) IN
       /\ IsPrefix(runErrors, layout)
       /\ ValidationReturned => runErrors = layout

\* a step of the validation leaves the entries of the list in place
AppendOnlyStep == Validating => IsPrefix(runErrors, runErrors')

OrderedAppendOnly == []ErrorsInOrder /\ [][AppendOnlyStep]_vars

\* a document that failed to parse and whose one group fails six rules:
\* the parse entry, the tenant entry, then the group's six in order
OrderedAppendOnlyWitness ==
  /\ ValidationReturned
  /\ file.parseErr # ""
  /\ Len(tenants) = 1
  /\ tenants[1].SiteGroups = <<BadGroup>>
  /\ runErrors = <<MsgJSON(file.parseErr), MsgTenant, MsgGroupName,
                   MsgCertMode(ModeUnknown), MsgCertProvider("unknownca"),
                   MsgCertType("1024"), MsgCredentials,
                   MsgSite(SiteLocalhost, ModeUnknown)>>

(***************************************************************************)
(* C10.  Empty-list asymmetry: when validateTenants returns, every tenant  *)
(* with an empty site_groups list has its one site_groups entry and the    *)
(* tenants after it are still checked; a document whose tenants all have   *)
(* an empty site_groups list has tenant, env and site_groups entries only. *)
(* Every group with an empty sites list has its one sites entry, and its   *)
(* cert_mode, cert_provider, cert_type and credential checks are still     *)
(* reported: the list holds one such entry per failing field of every      *)
(* group, the groups without sites included.                               *)
(***************************************************************************)
\* the failing cert fields of a document, summed over its groups
FailingFields(doc) ==
  Cardinality({p \in GroupsOf(doc) : ~ModeOK(GroupAt(doc, p).CertMode)})
  + Cardinality({p \in GroupsOf(doc) : ~ProviderOK(GroupAt(doc, p).CertProvider)})
  + Cardinality({p \in GroupsOf(doc) : ~TypeOK(GroupAt(doc, p).CertType)})
  + Cardinality({p \in GroupsOf(doc) :
                   LET bundle == GroupAt(doc, p).CertProviderCredentials
                   IN ~AbsentBundle(bundle) /\ ~CompleteBundle(bundle)})

FieldMessages(doc) ==
  {MsgCredentials}
    \cup {MsgCertMode(GroupAt(doc, p).CertMode) : p \in GroupsOf(doc)}
    \cup {MsgCertProvider(GroupAt(doc, p).CertProvider) : p \in GroupsOf(doc)}
    \cup {MsgCertType(GroupAt(doc, p).CertType) : p \in GroupsOf(doc)}

EmptyListAsymmetry ==
  ValidationReturned =>
    /\ Count(runErrors, MsgSiteGroups) =
         Cardinality({t \in 1..Len(tenants) : Len(tenants[t].SiteGroups) = 0})
    /\ Count(runErrors, MsgTenant) =
         Cardinality({t \in 1..Len(tenants) : tenants[t].Tenant = ""})
    /\ Count(runErrors, MsgEnv) =
         Cardinality({t \in 1..Len(tenants) : tenants[t].Env = ""})
    /\ GroupsOf(tenants) = {} =>
         \A i \in (Len(ParsePrefix) + 1)..Len(runErrors) :
           runErrors[i] \in {MsgTenant, MsgEnv, MsgSiteGroups}
    /\ Count(runErrors, MsgSitesEmpty) =
         Cardinality({p \in GroupsOf(tenants) : Len(GroupAt(tenants, p).Sites) = 0})
    /\ Cardinality({i \in 1..Len(runErrors) : runErrors[i] \in FieldMessages(tenants)}) =
         FailingFields(tenants)

\* a tenant without site groups, then a tenant whose group has no sites,
\* an unknown provider and a partial bundle
EmptyListAsymmetryWitness ==
  /\ ValidationReturned
  /\ Len(tenants) = 2
  /\ tenants[1] = tenantStruct("t2", "", <<>>)
  /\ Len(tenants[2].SiteGroups) = 1
  /\ tenants[2].SiteGroups[1].Sites = <<>>
  /\ runErrors = <<MsgEnv, MsgSiteGroups, MsgSitesEmpty,
                   MsgCertProvider("unknownca"), MsgCredentials>>

=============================================================================
